---- MODULE Spec2Model ----
(***************************************************************************)
(* Package reflect/incomplete: run-time creation of recursive types.       *)
(*                                                                         *)
(* The heap of *itype nodes is the sequence `nodes`; a pointer to a node   *)
(* is its index, 0 is the nil pointer.  An optional Go value (a pointer    *)
(* field that may be nil, a nil interface) is a sequence of length 0 or 1. *)
(* A Go panic unwinds the call: every assignment made before it persists.  *)
(* Each operation is an operator from the heap to the heap it leaves       *)
(* behind, the value it returns and the panic it raised ("" for none).     *)
(***************************************************************************)
EXTENDS Integers, Sequences, FiniteSets, TLC

VARIABLES nodes, ofMap, lookupCache, funcLookupCache, structLookupCache,
          call, returned, sess

vars == <<nodes, ofMap, lookupCache, funcLookupCache, structLookupCache,
          call, returned, sess>>

(***************************************************************************)
(* Bounds of the model.                                                    *)
(***************************************************************************)
MaxNodes == 2
MaxShapes == 3
MaxGraph == 3
MaxMethods == 2
MaxRoots == 2
MaxLayout == 5
MaxList == 4
MaxMaps == 4
MaxFields == 3
MaxIface == 4
MaxArrays == 3
MaxKeys == 4
NumSessions == 2
UintptrBits == 8

(***************************************************************************)
(* Program constants.                                                      *)
(***************************************************************************)
ptrSize == 8
tunknown == 0
tfalse == 1
ttrue == 2
RecvDir == 1
BothDir == 3

iflagDefined == "iflagDefined"
iflagSize == "iflagSize"
iflagHashStr == "iflagHashStr"

kInvalid == "invalid"
kInt == "int"
kInt8 == "int8"
kInt32 == "int32"
kArray == "array"
kChan == "chan"
kFunc == "func"
kInterface == "interface"
kMap == "map"
kPtr == "ptr"
kSlice == "slice"
kStruct == "struct"
\* the tag of an info that is another *itype: the underlying type of a named type
kItype == "itype"

MaxUintptr == 2^UintptrBits - 1

Max(a, b) == IF a > b THEN a ELSE b

makeTribool(flag) == IF flag THEN ttrue ELSE tfalse

andTribool(a, b) ==
    IF a = tunknown \/ b = tunknown THEN tunknown
    ELSE IF a = tfalse \/ b = tfalse THEN tfalse
    ELSE ttrue

\* an align that rounds nothing: the fields are packed without padding
doAlignPacked(x, n) == x

\* align returns the result of rounding x up to a multiple of n (a power of two)
doAlign(x, n) == IF n = 0 THEN 0 ELSE ((x + n - 1) \div n) * n

(***************************************************************************)
(* reflect.Type values: the realized handles.  Two handles built by        *)
(* package reflect from equal parts are the same handle; a handle made by  *)
(* wrap() from the rtype of node p is identified by p.                     *)
(***************************************************************************)
RType(kind, isNamed, ch, extra, ptr, size, align, cmp) ==
    [kind |-> kind, isNamed |-> isNamed, ch |-> ch, extra |-> extra, ptr |-> ptr,
     names |-> <<>>, size |-> size, align |-> align, fieldAlign |-> align,
     cmp |-> cmp]

RTypeOfInt == RType(kInt, TRUE, <<>>, 0, 0, ptrSize, ptrSize, TRUE)

reflectPtrTo(rt) == RType(kPtr, FALSE, <<rt>>, 0, 0, ptrSize, ptrSize, TRUE)
reflectSliceOf(rt) == RType(kSlice, FALSE, <<rt>>, 0, 0, 3 * ptrSize, ptrSize, FALSE)
reflectChanOf(dir, rt) == RType(kChan, FALSE, <<rt>>, dir, 0, ptrSize, ptrSize, TRUE)
reflectMapOf(k, e) == RType(kMap, FALSE, <<k, e>>, 0, 0, ptrSize, ptrSize, FALSE)
reflectArrayOf(count, rt) ==
    RType(kArray, FALSE, <<rt>>, count, 0, (count * rt.size) % (MaxUintptr + 1),
          rt.align, rt.cmp)
reflectFuncOf(rin, rout, variadic) ==
    RType(kFunc, FALSE, rin \o rout, 2 * Len(rin) + (IF variadic THEN 1 ELSE 0), 0,
          ptrSize, ptrSize, FALSE)

\* the rtype a realized handle stands for: its size, align, fieldAlign and kind
unwrap(rt) ==
    [size |-> rt.size, align |-> rt.align, fieldAlign |-> rt.fieldAlign,
     kind |-> rt.kind, equal |-> rt.cmp, hashed |-> TRUE]

\* a fresh *rtype copied from a prototype of package reflect
Rtype(kind, size, align) ==
    [size |-> size, align |-> align, fieldAlign |-> align, kind |-> kind,
     equal |-> kind \notin {kSlice, kFunc, kMap}, hashed |-> FALSE]

(***************************************************************************)
(* The shape descriptor stored in itype.info: one of *itype (kind "itype", *)
(* ch = <<u>>), iArrayType, iChanType, iFuncType, iInterfaceType,          *)
(* iMapType, iPtrType, iSliceType, iStructType.                            *)
(***************************************************************************)
Info(k, ch, extra, variadic, fields) ==
    [k |-> k, ch |-> ch, extra |-> extra, variadic |-> variadic, fields |-> fields]

itype(named, comparable, iflag, incomplete, complete, info) ==
    [named |-> named, comparable |-> comparable, iflag |-> iflag,
     incomplete |-> incomplete, complete |-> complete, info |-> info]

namedType(name) == [name |-> name, vmethod |-> <<>>]

Method(name, pkgPath, type) == [Name |-> name, PkgPath |-> pkgPath, Type |-> type]

Ids(ns) == 1..Len(ns)

isComplete(ns, t) == ns[t].complete # <<>>

allTypesAreComplete(ns, ts) == \A i \in 1..Len(ts) : isComplete(ns, ts[i])

\* a cacheKey without the extra integer
cacheKeyOfKind(kind, t1, t2, extra) == [kind |-> kind, t1 |-> t1, t2 |-> t2, extra |-> 0]

\* a cacheKey of the lookupCache
cacheKey(kind, t1, t2, extra) == [kind |-> kind, t1 |-> t1, t2 |-> t2, extra |-> extra]

(***************************************************************************)
(* The heap and the caches as one value, and the result of an operation.   *)
(***************************************************************************)
Heap == [nodes |-> nodes, ofMap |-> ofMap, lookupCache |-> lookupCache,
         funcLookupCache |-> funcLookupCache,
         structLookupCache |-> structLookupCache]

Result(h, ret, err) == [h |-> h, ret |-> ret, err |-> err]

\* new(itype): the node is appended to the heap, its index is the pointer
alloc(h, node) == [h EXCEPT !.nodes = Append(h.nodes, node)]

kind(ns, t) ==
    IF ns[t].complete # <<>> THEN ns[t].complete[1].kind
    ELSE IF ns[t].incomplete # <<>> THEN ns[t].incomplete[1].kind
    ELSE kInvalid

size(ns, t) ==
    IF iflagSize \notin ns[t].iflag THEN 0
    ELSE IF ns[t].complete # <<>> THEN ns[t].complete[1].size
    ELSE ns[t].incomplete[1].size

align(ns, t) ==
    IF iflagSize \notin ns[t].iflag THEN 0
    ELSE IF ns[t].complete # <<>> THEN ns[t].complete[1].align
    ELSE ns[t].incomplete[1].align

fieldAlign(ns, t) ==
    IF iflagSize \notin ns[t].iflag THEN 0
    ELSE IF ns[t].complete # <<>> THEN ns[t].complete[1].fieldAlign
    ELSE ns[t].incomplete[1].fieldAlign

(***************************************************************************)
(* Of: the node of an already complete reflect.Type, cached in ofMap.      *)
(***************************************************************************)
of(h, rtyp) ==
    IF rtyp \in DOMAIN h.ofMap THEN Result(h, h.ofMap[rtyp], "")
    ELSE LET ityp == itype(IF rtyp.isNamed THEN <<namedType(rtyp.kind)>> ELSE <<>>,
                           makeTribool(rtyp.cmp), {iflagSize}, <<>>, <<rtyp>>, <<>>)
             h1 == alloc(h, ityp)
             id == Len(h1.nodes)
         IN Result([h1 EXCEPT !.ofMap = (rtyp :> id) @@ h.ofMap], id, "")

\* reflect.isValidFieldName on the names the model uses: "1x" is not an
\* identifier, "a" is one that starts with a lower-case letter
isValidFieldName(name) == name \in {"A", "B", "F", "G", "a"}

startsLower(name) == name \in {"a"}

NamedOf(h, name) ==
    IF name = "" THEN Result(h, 0, "incomplete.NamedOf: empty name")
    ELSE IF ~isValidFieldName(name) THEN Result(h, 0, "incomplete.NamedOf: invalid name")
    ELSE LET h1 == alloc(h, itype(<<namedType(name)>>, tunknown, {}, <<>>, <<>>, <<>>))
         IN Result(h1, Len(h1.nodes), "")

(***************************************************************************)
(* The lookupCache and the constructors that use it.  Each constructor is  *)
(* given in two parts: the part up to the cache Load (which returns 0 on a *)
(* miss) and the part that makes the node and calls canonicalize.          *)
(***************************************************************************)
\* a canonicalize that stores t whatever the cache holds: lookupCache.Store
canonicalizeByStore(h, ckey, t) ==
    Result([h EXCEPT !.lookupCache =
                (ckey :> t) @@ [k \in DOMAIN h.lookupCache \ {ckey} |-> h.lookupCache[k]]],
           t, "")

\* lookupCache.LoadOrStore(ckey, t)
canonicalize(h, ckey, t) ==
    IF ckey \in DOMAIN h.lookupCache THEN Result(h, h.lookupCache[ckey], "")
    ELSE Result([h EXCEPT !.lookupCache = (ckey :> t) @@ h.lookupCache], t, "")

\* lookupCache.Load(ckey)
Load(cache, ckey) == IF ckey \in DOMAIN cache THEN cache[ckey] ELSE 0

PtrToLoad(h, elem) ==
    IF isComplete(h.nodes, elem) THEN of(h, reflectPtrTo(h.nodes[elem].complete[1]))
    ELSE Result(h, Load(h.lookupCache, cacheKey(kPtr, elem, 0, 0)), "")

\* a PtrTo whose node has a known size only if its element has one
PtrToMakeUnsized(h, elem) ==
    LET h1 == alloc(h, itype(<<>>, ttrue, h.nodes[elem].iflag \cap {iflagSize},
                             <<Rtype(kPtr, ptrSize, ptrSize)>>,
                             <<>>, <<Info(kPtr, <<elem>>, 0, FALSE, <<>>)>>))
    IN canonicalize(h1, cacheKey(kPtr, elem, 0, 0), Len(h1.nodes))

PtrToMake(h, elem) ==
    LET h1 == alloc(h, itype(<<>>, ttrue, {iflagSize}, <<Rtype(kPtr, ptrSize, ptrSize)>>,
                             <<>>, <<Info(kPtr, <<elem>>, 0, FALSE, <<>>)>>))
    IN canonicalize(h1, cacheKey(kPtr, elem, 0, 0), Len(h1.nodes))

PtrTo(h, elem) ==
    LET r == PtrToLoad(h, elem) IN IF r.ret # 0 THEN r ELSE PtrToMake(h, elem)

SliceOfLoad(h, elem) ==
    IF isComplete(h.nodes, elem) THEN of(h, reflectSliceOf(h.nodes[elem].complete[1]))
    ELSE Result(h, Load(h.lookupCache, cacheKey(kSlice, elem, 0, 0)), "")

SliceOfMake(h, elem) ==
    LET h1 == alloc(h, itype(<<>>, tfalse, {iflagSize},
                             <<Rtype(kSlice, 3 * ptrSize, ptrSize)>>,
                             <<>>, <<Info(kSlice, <<elem>>, 0, FALSE, <<>>)>>))
    IN canonicalize(h1, cacheKey(kSlice, elem, 0, 0), Len(h1.nodes))

SliceOf(h, elem) ==
    LET r == SliceOfLoad(h, elem) IN IF r.ret # 0 THEN r ELSE SliceOfMake(h, elem)

ChanOfLoad(h, dir, elem) ==
    IF isComplete(h.nodes, elem)
    THEN of(h, reflectChanOf(dir, h.nodes[elem].complete[1]))
    ELSE Result(h, Load(h.lookupCache, cacheKey(kChan, elem, 0, dir)), "")

ChanOfMake(h, dir, elem) ==
    LET h1 == alloc(h, itype(<<>>, ttrue, {iflagSize}, <<Rtype(kChan, ptrSize, ptrSize)>>,
                             <<>>, <<Info(kChan, <<elem>>, dir, FALSE, <<>>)>>))
    IN canonicalize(h1, cacheKey(kChan, elem, 0, dir), Len(h1.nodes))

ChanOf(h, dir, elem) ==
    LET r == ChanOfLoad(h, dir, elem)
    IN IF r.ret # 0 THEN r ELSE ChanOfMake(h, dir, elem)

ArrayOfLoad(h, count, elem) ==
    IF count < 0 THEN Result(h, 0, "incomplete.ArrayOf: element count is negative")
    ELSE IF isComplete(h.nodes, elem)
    THEN of(h, reflectArrayOf(count, h.nodes[elem].complete[1]))
    ELSE Result(h, Load(h.lookupCache, cacheKey(kArray, elem, 0, count)), "")

\* an ArrayOf that marks the size of every array as known
ArrayOfMakeSized(h, count, elem) ==
    LET h1 == alloc(h, itype(<<>>, h.nodes[elem].comparable, {iflagSize},
                             <<Rtype(kArray, ptrSize, ptrSize)>>,
                             <<>>, <<Info(kArray, <<elem>>, count, FALSE, <<>>)>>))
    IN canonicalize(h1, cacheKey(kArray, elem, 0, count), Len(h1.nodes))

\* the node's rtype is a copy of the rtype of [1]unsafe.Pointer
ArrayOfMake(h, count, elem) ==
    LET ielem == h.nodes[elem]
        h1 == alloc(h, itype(<<>>, ielem.comparable, ielem.iflag \cap {iflagSize},
                             <<Rtype(kArray, ptrSize, ptrSize)>>,
                             <<>>, <<Info(kArray, <<elem>>, count, FALSE, <<>>)>>))
    IN canonicalize(h1, cacheKey(kArray, elem, 0, count), Len(h1.nodes))

ArrayOf(h, count, elem) ==
    LET r == ArrayOfLoad(h, count, elem)
    IN IF r.ret # 0 \/ r.err # "" THEN r ELSE ArrayOfMake(h, count, elem)

\* MapOf makes a new node at every call: it does not use the lookupCache
MapOf(h, key, elem) ==
    LET ikey == h.nodes[key]
        ielem == h.nodes[elem]
    IN IF ikey.complete # <<>> /\ ielem.complete # <<>>
       THEN IF ~ikey.complete[1].cmp
            THEN Result(h, 0, "reflect.MapOf: invalid key type")
            ELSE of(h, reflectMapOf(ikey.complete[1], ielem.complete[1]))
       ELSE IF ikey.comparable = tfalse
       THEN Result(h, 0, "incomplete.MapOf: invalid key type, is not comparable")
       ELSE LET h1 == alloc(h, itype(<<>>, tfalse, {iflagSize},
                                     <<Rtype(kMap, ptrSize, ptrSize)>>, <<>>,
                                     <<Info(kMap, <<key, elem>>, 0, FALSE, <<>>)>>))
            IN Result(h1, Len(h1.nodes), "")

(***************************************************************************)
(* FuncOf and the funcLookupCache.                                         *)
(***************************************************************************)
maxFuncArgs == 128

funcCacheKey(in, out, variadic) ==
    [args |-> in \o out, inCount |-> Len(in), outCount |-> Len(out),
     variadic |-> variadic]

completeOf(ns, ts) == [i \in 1..Len(ts) |-> ns[ts[i]].complete[1]]

FuncOf(h, in, out, variadic) ==
    LET ns == h.nodes
        nin == Len(in)
        nout == Len(out)
        ckey == funcCacheKey(in, out, variadic)
    IN IF variadic /\ (nin = 0 \/ kind(ns, in[nin]) # kSlice \/ ns[in[nin]].named # <<>>)
       THEN Result(h, 0, "incomplete.FuncOf: last arg of variadic func must be unnamed slice")
       ELSE IF allTypesAreComplete(ns, in) /\ allTypesAreComplete(ns, out)
       THEN of(h, reflectFuncOf(completeOf(ns, in), completeOf(ns, out), variadic))
       ELSE IF nin + nout > maxFuncArgs
       THEN Result(h, 0, "incomplete.FuncOf: too many arguments")
       ELSE IF ckey \in DOMAIN h.funcLookupCache
       THEN Result(h, h.funcLookupCache[ckey], "")
       ELSE LET h1 == alloc(h, itype(<<>>, tfalse, {iflagSize},
                                     <<Rtype(kFunc, ptrSize, ptrSize)>>, <<>>,
                                     <<Info(kFunc, in \o out, nin, variadic, <<>>)>>))
                t == Len(h1.nodes)
            IN Result([h1 EXCEPT !.funcLookupCache = (ckey :> t) @@ h.funcLookupCache],
                      t, "")

(***************************************************************************)
(* StructOf and the structLookupCache.                                     *)
(***************************************************************************)
StructField(name, pkgPath, type, anonymous) ==
    [Name |-> name, PkgPath |-> pkgPath, Type |-> type, Anonymous |-> anonymous]

\* the panic of StructField.toRuntime, "" if it returns
toRuntime(field) ==
    IF field.Anonymous /\ field.PkgPath # ""
    THEN "incomplete.StructOf: field is anonymous but has PkgPath set"
    ELSE IF field.PkgPath = "" /\ startsLower(field.Name)
    THEN "incomplete.StructOf: field is unexported but missing PkgPath"
    ELSE ""

\* the loop over the fields: it stops at the first field of incomplete type
RECURSIVE structOfLoop(_, _, _, _, _)
structOfLoop(ns, fields, i, comparable, pkgPath) ==
    IF i > Len(fields)
    THEN [err |-> "", complete |-> TRUE, comparable |-> comparable]
    ELSE LET field == fields[i]
             bad(msg) == [err |-> msg, complete |-> FALSE, comparable |-> comparable]
         IN IF field.Name = "" THEN bad("incomplete.StructOf: field has no name")
            ELSE IF ~isValidFieldName(field.Name)
            THEN bad("incomplete.StructOf: field has invalid name")
            ELSE IF field.Type = 0 THEN bad("incomplete.StructOf: field has no type")
            ELSE IF ns[field.Type].complete = <<>>
            THEN [err |-> "", complete |-> FALSE, comparable |-> comparable]
            ELSE IF toRuntime(field) # "" THEN bad(toRuntime(field))
            ELSE IF field.PkgPath # "" /\ pkgPath # "" /\ pkgPath # field.PkgPath
            THEN bad("incomplete.StructOf: fields with different PkgPath")
            ELSE structOfLoop(ns, fields, i + 1,
                              andTribool(comparable, ns[field.Type].comparable),
                              IF pkgPath = "" THEN field.PkgPath ELSE pkgPath)

\* the size and the alignment reflect.StructOf gives the fields from i on
RECURSIVE reflectLayout(_, _, _, _, _)
reflectLayout(rts, i, sz, al, lastzero) ==
    IF i > Len(rts)
    THEN [size |-> doAlign(IF sz > 0 /\ lastzero = sz THEN sz + 1 ELSE sz, al),
          align |-> al]
    ELSE LET off == doAlign(sz, rts[i].align)
         IN reflectLayout(rts, i + 1, off + rts[i].size, Max(al, rts[i].align),
                          IF rts[i].size = 0 THEN off + rts[i].size ELSE lastzero)

reflectStructOf(ns, fields) ==
    LET rts == [i \in 1..Len(fields) |-> ns[fields[i].Type].complete[1]]
        lay == reflectLayout(rts, 1, 0, 1, 0)
    IN [RType(kStruct, FALSE, rts, 0, 0, lay.size, lay.align,
              \A i \in 1..Len(rts) : rts[i].cmp)
        EXCEPT !.names = [i \in 1..Len(fields) |-> fields[i].Name]]

reflectStructOfPanics(fields) ==
    \E i, j \in 1..Len(fields) : i < j /\ fields[i].Name = fields[j].Name

StructOf(h, fields) ==
    LET ns == h.nodes
        loop == structOfLoop(ns, fields, 1, ttrue, "")
        ckey == fields
    IN IF loop.err # "" THEN Result(h, 0, loop.err)
       ELSE IF loop.complete
       THEN IF reflectStructOfPanics(fields)
            THEN Result(h, 0, "reflect.StructOf: duplicate field")
            ELSE of(h, reflectStructOf(ns, fields))
       ELSE IF ckey \in DOMAIN h.structLookupCache
       THEN Result(h, h.structLookupCache[ckey], "")
       ELSE LET h1 == alloc(h, itype(<<>>, loop.comparable, {},
                                     <<Rtype(kStruct, 0, 1)>>, <<>>,
                                     <<Info(kStruct,
                                            [i \in 1..Len(fields) |-> fields[i].Type],
                                            0, FALSE, fields)>>))
                t == Len(h1.nodes)
            IN Result([h1 EXCEPT !.structLookupCache =
                                     (ckey :> t) @@ h.structLookupCache], t, "")

(***************************************************************************)
(* InterfaceOf makes a new node at every call.                             *)
(***************************************************************************)
InterfaceOf(h, embedded, method) ==
    LET h1 == alloc(h, itype(<<>>, ttrue, {iflagSize},
                             <<Rtype(kInterface, 2 * ptrSize, ptrSize)>>, <<>>,
                             <<Info(kInterface, embedded, 0, FALSE, method)>>))
    IN Result(h1, Len(h1.nodes), "")

(***************************************************************************)
(* AddMethod, Define, descendType, allocUncommonType.  The operations on   *)
(* nodes return NsResult: the nodes they leave behind, the boolean they    *)
(* return and the panic they raised.                                       *)
(***************************************************************************)
NsResult(ns, ok, err) == [ns |-> ns, ok |-> ok, err |-> err]

\* an AddMethod without the test of t.complete
AddMethodToComplete(h, t, mtd) ==
    IF h.nodes[t].named = <<>>
    THEN Result(h, 0, "incomplete.Type.AddMethod: type not created with NamedOf")
    ELSE Result([h EXCEPT !.nodes[t].named[1].vmethod = Append(@, mtd)], 0, "")

AddMethod(h, t, mtd) ==
    IF h.nodes[t].named = <<>>
    THEN Result(h, 0, "incomplete.Type.AddMethod: type not created with NamedOf")
    ELSE IF h.nodes[t].complete # <<>>
    THEN Result(h, 0, "incomplete.Type.AddMethod: type is already complete")
    ELSE Result([h EXCEPT !.nodes[t].named[1].vmethod = Append(@, mtd)], 0, "")

\* ret, _ = ityp.info.(*itype), nil for the nil pointer
next(ns, ityp) ==
    IF ityp = 0 THEN 0
    ELSE IF ns[ityp].info # <<>> /\ ns[ityp].info[1].k = kItype
    THEN ns[ityp].info[1].ch[1]
    ELSE 0

\* the loop of descendType from the values t1, t2, last of one iteration
RECURSIVE descendLoop(_, _, _, _)
descendLoop(ns, t1, t2, last) ==
    IF t1 = 0 THEN [last |-> last, loop |-> FALSE]
    ELSE LET n1 == next(ns, t1)
             n2 == next(ns, next(ns, t2))
         IN IF n1 # 0 /\ n1 = n2 THEN [last |-> t1, loop |-> TRUE]
            ELSE descendLoop(ns, n1, n2, t1)

\* a descendType that follows no link: it leaves t.info as Define has set it
descendTypeUnchecked(ns, t) == NsResult(ns, TRUE, "")

descendType(ns, t) ==
    LET r == descendLoop(ns, t, t, t)
    IN IF r.loop
       THEN NsResult([ns EXCEPT ![t].info = <<>>], FALSE,
                     "incomplete.Type.Define(): invalid Type loop")
       ELSE NsResult([ns EXCEPT ![t].info = <<Info(kItype, <<r.last>>, 0, FALSE, <<>>)>>],
                     TRUE, "")

allocUncommonType(ns, t) ==
    LET u == ns[t].info[1].ch[1]
    IN IF ns[u].incomplete = <<>> /\ ns[u].complete = <<>>
       THEN NsResult(ns, FALSE,
                "internal error: fields .complete and .incomplete are both nil in type")
       ELSE LET rtu == IF ns[u].incomplete # <<>> THEN ns[u].incomplete[1]
                       ELSE unwrap(ns[u].complete[1])
            IN IF kind(ns, u) = kInvalid
               THEN NsResult(ns, FALSE,
                        "incomplete.Type.Define: underlying type is not Define'd yet")
               ELSE IF kind(ns, u) = kInterface
               THEN NsResult(ns, FALSE, "unimplemented: named interface type")
               ELSE NsResult([ns EXCEPT ![t].incomplete = <<[rtu EXCEPT !.hashed = FALSE]>>],
                             TRUE, "")

(***************************************************************************)
(* computeSize.  The map `work` is the set of the named types whose size   *)
(* is being computed: push adds t, the delete after the call removes it.   *)
(***************************************************************************)
\* a setSize that adds sz to the size the rtype holds and does not mark it known
setSizeGrow(ns, t, sz, al, fal) ==
    IF ns[t].incomplete = <<>> THEN NsResult(ns, FALSE, "itype.incomplete is nil")
    ELSE NsResult([ns EXCEPT ![t].incomplete[1].size =
                                 (@ + sz) % (MaxUintptr + 1),
                             ![t].incomplete[1].align = al,
                             ![t].incomplete[1].fieldAlign = fal], TRUE, "")

setSize(ns, t, sz, al, fal) ==
    IF ns[t].incomplete = <<>> THEN NsResult(ns, FALSE, "itype.incomplete is nil")
    ELSE NsResult([ns EXCEPT ![t].incomplete[1].size = sz,
                             ![t].incomplete[1].align = al,
                             ![t].incomplete[1].fieldAlign = fal,
                             ![t].iflag = @ \cup {iflagSize}], TRUE, "")

setSizeFrom(ns, t, rfrom) == setSize(ns, t, rfrom.size, rfrom.align, rfrom.fieldAlign)

RECURSIVE computeSize(_, _, _)
RECURSIVE itypeComputeSize(_, _, _, _)
RECURSIVE infoComputeSize(_, _, _, _)
RECURSIVE iStructTypeComputeSize(_, _, _, _, _, _)
RECURSIVE iArrayTypeComputeSize(_, _, _, _)

\* func computeSize(t *itype, work map[*itype]struct{}) bool
computeSize(ns, t, work) ==
    IF iflagSize \in ns[t].iflag THEN NsResult(ns, TRUE, "")
    ELSE itypeComputeSize(ns, t, t, work)

\* func (u *itype) computeSize(t *itype, work map[*itype]struct{}) bool
itypeComputeSize(ns, u, t, work) ==
    IF ns[t].complete # <<>> \/ iflagSize \in ns[t].iflag THEN NsResult(ns, TRUE, "")
    ELSE IF ns[u].complete # <<>> THEN setSizeFrom(ns, t, unwrap(ns[u].complete[1]))
    ELSE IF ns[u].incomplete # <<>> /\ iflagSize \in ns[u].iflag
    THEN setSizeFrom(ns, t, ns[u].incomplete[1])
    ELSE IF t = u /\ t \in work
    THEN NsResult(ns, FALSE, "invalid Type loop detected: cannot compute size")
    ELSE IF ns[u].info = <<>>
    THEN NsResult(ns, FALSE, "runtime error: invalid memory address or nil pointer dereference")
    ELSE infoComputeSize(ns, ns[u].info[1], t, IF t = u THEN work \cup {t} ELSE work)

\* u.info.computeSize(t, work), by the dynamic type of u.info
infoComputeSize(ns, info, t, work) ==
    IF info.k = kItype THEN itypeComputeSize(ns, info.ch[1], t, work)
    ELSE IF info.k = kStruct THEN iStructTypeComputeSize(ns, info, t, work, 1,
                                      [size |-> 0, lastzero |-> 0, align |-> 0, ok |-> TRUE])
    ELSE IF info.k = kArray THEN iArrayTypeComputeSize(ns, info, t, work)
    ELSE NsResult(ns, TRUE, "")

\* the loop of iStructType.computeSize from field i on, then its end
iStructTypeComputeSize(ns, info, t, work, i, acc) ==
    IF i > Len(info.fields)
    THEN IF acc.ok
         THEN setSize(ns, t,
                      IF acc.size > 0 /\ acc.lastzero = acc.size
                      THEN (acc.size + 1) % (MaxUintptr + 1) ELSE acc.size,
                      acc.align, acc.align)
         ELSE NsResult(ns, FALSE, "")
    ELSE LET ityp == info.fields[i].Type
             r == computeSize(ns, ityp, work)
             offset == doAlign(acc.size, align(r.ns, ityp)) % (MaxUintptr + 1)
             sz == (offset + size(r.ns, ityp)) % (MaxUintptr + 1)
         IN IF r.err # "" THEN r
            ELSE IF iflagSize \notin r.ns[ityp].iflag
            THEN iStructTypeComputeSize(r.ns, info, t, work, i + 1, [acc EXCEPT !.ok = FALSE])
            ELSE IF acc.ok
            THEN iStructTypeComputeSize(r.ns, info, t, work, i + 1,
                     [size |-> sz,
                      lastzero |-> IF size(r.ns, ityp) = 0 THEN sz ELSE acc.lastzero,
                      align |-> Max(acc.align, align(r.ns, ityp)),
                      ok |-> TRUE])
            ELSE iStructTypeComputeSize(r.ns, info, t, work, i + 1, acc)

iArrayTypeComputeSize(ns, info, t, work) ==
    LET ielem == info.ch[1]
        r == itypeComputeSize(ns, ielem, ielem, work)
        esize == size(r.ns, ielem)
    IN IF r.err # "" \/ ~r.ok THEN r
       ELSE IF esize > 0 /\ info.extra > MaxUintptr \div esize
       THEN NsResult(r.ns, FALSE,
                "incomplete.ArrayOf: array size would exceed virtual address space")
       ELSE setSize(r.ns, t, (info.extra * esize) % (MaxUintptr + 1),
                    align(r.ns, ielem), fieldAlign(r.ns, ielem))

\* a Define without the test of iflagDefined
DefineAgain(h, t, u) ==
    LET ns == h.nodes
        ns1 == [ns EXCEPT ![t].info = <<Info(kItype, <<u>>, 0, FALSE, <<>>)>>]
        r2 == descendType(ns1, t)
        r3 == allocUncommonType(r2.ns, t)
        r4 == itypeComputeSize(r3.ns, t, t, {})
        fail(r) == Result([h EXCEPT !.nodes = r.ns], 0, r.err)
    IN IF ns[t].named = <<>>
       THEN Result(h, 0, "incomplete.Type.Define: type not created with NamedOf")
       ELSE IF ns[t].complete # <<>>
       THEN Result(h, 0, "incomplete.Type.Define: type is already complete")
       ELSE IF r2.err # "" THEN fail(r2)
       ELSE IF r3.err # "" THEN fail(r3)
       ELSE IF r4.err # "" THEN fail(r4)
       ELSE Result([h EXCEPT !.nodes = [r4.ns EXCEPT ![t].iflag = @ \cup {iflagDefined}]],
                   0, "")

Define(h, t, u) ==
    LET ns == h.nodes
        ns1 == [ns EXCEPT ![t].info = <<Info(kItype, <<u>>, 0, FALSE, <<>>)>>]
        r2 == descendType(ns1, t)
        r3 == allocUncommonType(r2.ns, t)
        r4 == itypeComputeSize(r3.ns, t, t, {})
        fail(r) == Result([h EXCEPT !.nodes = r.ns], 0, r.err)
    IN IF iflagDefined \in ns[t].iflag
       THEN Result(h, 0, "incomplete.Type.Define: already invoked on this type")
       ELSE IF ns[t].named = <<>>
       THEN Result(h, 0, "incomplete.Type.Define: type not created with NamedOf")
       ELSE IF ns[t].complete # <<>>
       THEN Result(h, 0, "incomplete.Type.Define: type is already complete")
       ELSE IF r2.err # "" THEN fail(r2)
       ELSE IF r3.err # "" THEN fail(r3)
       ELSE IF r4.err # "" THEN fail(r4)
       ELSE Result([h EXCEPT !.nodes = [r4.ns EXCEPT ![t].iflag = @ \cup {iflagDefined}]],
                   0, "")

(***************************************************************************)
(* computeHashStr fills the fields hash and str of t.incomplete; the model *)
(* keeps whether they are filled.  iSliceType.computeHashStr writes        *)
(* through a pointer to the field t.incomplete as if it were a sliceType:  *)
(* the writes land outside the rtype, and the call either returns with the *)
(* rtype as it was or the process crashes (ub says which).                 *)
(***************************************************************************)
nilDeref == "runtime error: invalid memory address or nil pointer dereference"

setHashStrFromNamed(ns, t) ==
    IF ns[t].incomplete = <<>> THEN NsResult(ns, FALSE, "itype.incomplete is nil")
    ELSE NsResult([ns EXCEPT ![t].incomplete[1].hashed = TRUE], TRUE, "")

\* t.incomplete.hash = ...; t.incomplete.str = ...
setHashStr(ns, t) ==
    IF ns[t].incomplete = <<>> THEN NsResult(ns, FALSE, nilDeref)
    ELSE NsResult([ns EXCEPT ![t].incomplete[1].hashed = TRUE], TRUE, "")

RECURSIVE computeHashStr(_, _, _)
RECURSIVE itypeComputeHashStr(_, _, _, _)
RECURSIVE infoComputeHashStr(_, _, _, _)
RECURSIVE hashOfEach(_, _, _, _)

\* a computeHashStr that stores iflagHashStr in place of the flags held
computeHashStrOnly(ns, t, ub) ==
    IF ns[t].complete # <<>> \/ iflagHashStr \in ns[t].iflag THEN NsResult(ns, TRUE, "")
    ELSE LET r == itypeComputeHashStr(ns, t, t, ub)
         IN IF r.err # "" THEN r
            ELSE NsResult([r.ns EXCEPT ![t].iflag = {iflagHashStr}], TRUE, "")

\* func computeHashStr(t *itype)
computeHashStr(ns, t, ub) ==
    IF ns[t].complete # <<>> \/ iflagHashStr \in ns[t].iflag THEN NsResult(ns, TRUE, "")
    ELSE LET r == itypeComputeHashStr(ns, t, t, ub)
         IN IF r.err # "" THEN r
            ELSE NsResult([r.ns EXCEPT ![t].iflag = @ \cup {iflagHashStr}], TRUE, "")

\* func (u *itype) computeHashStr(t *itype)
itypeComputeHashStr(ns, u, t, ub) ==
    IF ns[t].complete # <<>> \/ iflagHashStr \in ns[t].iflag THEN NsResult(ns, TRUE, "")
    ELSE IF ns[t].named # <<>> THEN setHashStrFromNamed(ns, t)
    ELSE IF ns[u].info = <<>> THEN NsResult(ns, FALSE, nilDeref)
    ELSE LET r == infoComputeHashStr(ns, ns[u].info[1], t, ub)
         IN IF r.err # "" THEN r
            ELSE NsResult([r.ns EXCEPT ![t].iflag = @ \cup {iflagHashStr}], TRUE, "")

\* computeHashStr(it) and the read of it.incomplete.hash, for each it of ts
hashOfEach(ns, ts, i, ub) ==
    IF i > Len(ts) THEN NsResult(ns, TRUE, "")
    ELSE IF ts[i] = 0 THEN NsResult(ns, FALSE, "interface conversion: interface is nil")
    ELSE LET r == computeHashStr(ns, ts[i], ub)
         IN IF r.err # "" THEN r
            ELSE IF r.ns[ts[i]].incomplete = <<>> THEN NsResult(r.ns, FALSE, nilDeref)
            ELSE hashOfEach(r.ns, ts, i + 1, ub)

\* u.info.computeHashStr(t), by the dynamic type of u.info
infoComputeHashStr(ns, info, t, ub) ==
    IF info.k = kItype THEN itypeComputeHashStr(ns, info.ch[1], t, ub)
    ELSE IF info.k \in {kStruct, kArray} THEN NsResult(ns, FALSE, "unimplemented")
    ELSE IF info.k = kSlice
    THEN LET r == computeHashStr(ns, info.ch[1], ub)
         IN IF r.err # "" THEN r
            ELSE IF ub THEN NsResult(r.ns, FALSE, "fatal error: unexpected signal")
            ELSE IF r.ns[info.ch[1]].incomplete = <<>> THEN NsResult(r.ns, FALSE, nilDeref)
            ELSE NsResult(r.ns, TRUE, "")
    ELSE IF info.k \in {kPtr, kChan}
    THEN LET r == hashOfEach(ns, info.ch, 1, ub)
         IN IF r.err # "" THEN r ELSE setHashStr(r.ns, t)
    ELSE IF info.k = kMap
    THEN LET ikey == info.ch[2]
             r == computeHashStr(ns, ikey, ub)
         IN IF r.err # "" THEN r
            ELSE IF r.ns[ikey].incomplete = <<>> THEN NsResult(r.ns, FALSE, nilDeref)
            ELSE IF ~r.ns[ikey].incomplete[1].equal
            THEN NsResult(r.ns, FALSE,
                     "incomplete.Complete: invalid map key type, is not comparable")
            ELSE setHashStr(r.ns, t)
    ELSE IF info.k = kFunc
    THEN LET r == hashOfEach(ns, info.ch, 1, ub)
         IN IF r.err # "" THEN r ELSE setHashStr(r.ns, t)
    ELSE LET r == hashOfEach(ns, info.ch, 1, ub)
             rm == IF r.err # "" THEN r
                   ELSE hashOfEach(r.ns, [i \in 1..Len(info.fields) |-> info.fields[i].Type],
                                   1, ub)
         IN IF rm.err # "" THEN rm ELSE setHashStr(rm.ns, t)

\* the types an info descriptor makes computeHashStr go on to
hashedNext(info) ==
    IF info.k \in {kStruct, kArray} THEN {}
    ELSE IF info.k = kMap THEN {info.ch[2]}
    ELSE {info.ch[i] : i \in 1..Len(info.ch)}
         \cup {info.fields[i].Type : i \in 1..Len(info.fields)}

\* a recursion that goes through a named node to its underlying type
entersUnderlying(ns, t) ==
    IF ns[t].complete # <<>> \/ iflagHashStr \in ns[t].iflag \/ ns[t].info = <<>> THEN {}
    ELSE hashedNext(ns[t].info[1]) \ {0}

\* the nodes on which computeHashStr(t) calls computeHashStr: none if t is
\* realized, flagged as hashed or named
enters(ns, t) ==
    IF ns[t].complete # <<>> \/ iflagHashStr \in ns[t].iflag THEN {}
    ELSE IF ns[t].named # <<>> \/ ns[t].info = <<>> THEN {}
    ELSE hashedNext(ns[t].info[1]) \ {0}

(***************************************************************************)
(* completeType and completeMethods.                                       *)
(***************************************************************************)
\* reflect.toType(t.incomplete): nil for a nil rtype, else the handle of node t
wrap(ns, t) ==
    IF ns[t].incomplete = <<>> THEN <<>>
    ELSE LET rt == ns[t].incomplete[1]
         IN <<[RType(rt.kind, ns[t].named # <<>>, <<>>, 0, t, rt.size, rt.align, rt.equal)
               EXCEPT !.fieldAlign = rt.fieldAlign]>>

completeMethods(ns, t) ==
    IF Len(ns[t].named[1].vmethod) # 0 THEN NsResult(ns, FALSE, "unimplemented")
    ELSE NsResult(ns, TRUE, "")

RECURSIVE itypeCompleteType(_, _, _)

\* u.info.completeType(t), by the dynamic type of u.info
infoCompleteType(ns, info, t) ==
    IF info.k = kItype THEN itypeCompleteType(ns, info.ch[1], t)
    ELSE IF info.k \in {kPtr, kChan, kFunc}
    THEN NsResult([ns EXCEPT ![t].complete = wrap(ns, t)], TRUE, "")
    ELSE NsResult(ns, FALSE, "unimplemented")

\* func (u *itype) completeType(t *itype)
itypeCompleteType(ns, u, t) ==
    IF ns[t].complete # <<>> THEN NsResult(ns, TRUE, "")
    ELSE IF ns[t].named # <<>>
    THEN completeMethods([ns EXCEPT ![t].complete = wrap(ns, t)], t)
    ELSE IF ns[u].info = <<>> THEN NsResult(ns, FALSE, nilDeref)
    ELSE infoCompleteType(ns, ns[u].info[1], t)

\* func completeType(t *itype)
completeType(ns, t) ==
    IF ns[t].complete # <<>> THEN NsResult(ns, TRUE, "") ELSE itypeCompleteType(ns, t, t)

(***************************************************************************)
(* Complete: the size loop, the check of the roots, the hash loop and the  *)
(* completeType loop, over the roots in[1..Len(in)].                       *)
(***************************************************************************)
RECURSIVE sizeLoop(_, _, _)
sizeLoop(ns, in, i) ==
    IF i > Len(in) THEN NsResult(ns, TRUE, "")
    ELSE LET r == computeSize(ns, in[i], {})
         IN IF r.err # "" THEN r ELSE sizeLoop(r.ns, in, i + 1)

\* the indexes (from 0, as the code counts them) of the roots with no known size
unsized(ns, in) == {i \in 0..(Len(in) - 1) : iflagSize \notin ns[in[i + 1]].iflag}

\* the index of the last root with no known size
lastUnsized(ns, in) == CHOOSE i \in unsized(ns, in) : \A j \in unsized(ns, in) : i >= j

firstUnsized(ns, in) == CHOOSE i \in unsized(ns, in) : \A j \in unsized(ns, in) : i <= j

noUnderlying(i) ==
    "incomplete.Complete: type " \o ToString(i)
        \o " depends on a named type with no underlying type"

RECURSIVE hashLoop(_, _, _, _)
hashLoop(ns, in, i, ub) ==
    IF i > Len(in) THEN NsResult(ns, TRUE, "")
    ELSE LET r == itypeComputeHashStr(ns, in[i], in[i], ub)
         IN IF r.err # "" THEN r ELSE hashLoop(r.ns, in, i + 1, ub)

RECURSIVE completeLoop(_, _, _)
completeLoop(ns, in, i) ==
    IF i > Len(in) THEN NsResult(ns, TRUE, "")
    ELSE LET r == itypeCompleteType(ns, in[i], in[i])
         IN IF r.err # "" THEN r ELSE completeLoop(r.ns, in, i + 1)

\* Complete ends with "return nil": the list it returns is empty
Complete(h, in, method, ub) ==
    LET r1 == sizeLoop(h.nodes, in, 1)
        r3 == hashLoop(r1.ns, in, 1, ub)
        r4 == completeLoop(r3.ns, in, 1)
        out(r) == Result([h EXCEPT !.nodes = r.ns], <<>>, r.err)
    IN IF method
       THEN Result(h, <<>>, "incomplete.Complete: argument 'method' must currently be nil")
       ELSE IF r1.err # "" THEN out(r1)
       ELSE IF unsized(r1.ns, in) # {}
       THEN Result([h EXCEPT !.nodes = r1.ns], <<>>,
                   noUnderlying(firstUnsized(r1.ns, in)))
       ELSE IF r3.err # "" THEN out(r3)
       ELSE out(r4)

(***************************************************************************)
(* The state machine.  `call` is the last call made: the operation, its    *)
(* receiver t, its argument u, the shape asked of a constructor, the       *)
(* method of AddMethod, the roots of Complete, the node returned (ret) or  *)
(* the list Complete returned (out) and the panic raised.  `returned` maps *)
(* a shape with an incomplete child to the nodes the constructor calls for *)
(* it have returned.                                                       *)
(***************************************************************************)
Call(op, t, u, shape, mtd, in, ret, err) ==
    [op |-> op, t |-> t, u |-> u, shape |-> shape, mtd |-> mtd, in |-> in,
     ret |-> IF op = "Complete" THEN 0 ELSE ret,
     out |-> IF op = "Complete" THEN ret ELSE <<>>, err |-> err]

constructors ==
    {"ArrayOf", "ChanOf", "FuncOf", "InterfaceOf", "MapOf", "PtrTo", "SliceOf", "StructOf"}

hasIncompleteChild(ns, shape) == \E i \in 1..Len(shape.ch) : ~isComplete(ns, shape.ch[i])

record(ret, shape) ==
    IF shape \in DOMAIN returned
    THEN [returned EXCEPT ![shape] = @ \cup {ret}]
    ELSE (shape :> {ret}) @@ returned

\* the heap after the call, within the bound n on the number of nodes
Commit(r, n) ==
    /\ Len(r.h.nodes) <= n
    /\ nodes' = r.h.nodes
    /\ ofMap' = r.h.ofMap
    /\ lookupCache' = r.h.lookupCache
    /\ funcLookupCache' = r.h.funcLookupCache
    /\ structLookupCache' = r.h.structLookupCache

Construct(op, shape, r, n) ==
    /\ Commit(r, n)
    /\ call' = Call(op, 0, 0, <<shape>>, <<>>, <<>>, r.ret, r.err)
    /\ returned' = IF r.err = "" /\ hasIncompleteChild(nodes, shape)
                   THEN record(r.ret, shape) ELSE returned
    /\ UNCHANGED sess

Operate(op, t, u, mtd, in, r, n) ==
    /\ Commit(r, n)
    /\ call' = Call(op, t, u, <<>>, mtd, in, r.ret, r.err)
    /\ UNCHANGED <<returned, sess>>

(***************************************************************************)
(* The arguments the calls are made with.                                  *)
(***************************************************************************)
Names == {"A", "", "1x"}
Dirs == {RecvDir, BothDir}
Counts == {-1, 2}
Methods == {Method("M", "p", 0), Method("N", "q", 0)}

SeqsUpTo(S, n) == UNION {[1..k -> S] : k \in 0..n}

FieldPairs ==
    {<<StructField("F", "", t1, FALSE), StructField("G", "", t2, FALSE)>> :
        t1 \in Ids(nodes), t2 \in Ids(nodes)}

FieldLists ==
    {<<StructField(name, "", t, FALSE)>> : name \in {"F", "a", ""}, t \in Ids(nodes)}
    \cup {fields \in FieldPairs : fields[1].Type <= fields[2].Type}

Sessions == 1..NumSessions

idle == [pc |-> "idle", op |-> "", elem |-> 0, extra |-> 0, ret |-> 0]

Init ==
    /\ nodes = <<>>
    /\ ofMap = <<>>
    /\ lookupCache = <<>>
    /\ funcLookupCache = <<>>
    /\ structLookupCache = <<>>
    /\ call = Call("", 0, 0, <<>>, <<>>, <<>>, 0, "")
    /\ returned = <<>>
    /\ sess = [s \in Sessions |-> idle]

DoNamedOf(n) ==
    \E name \in Names : Operate("NamedOf", 0, 0, <<>>, <<>>, NamedOf(Heap, name), n)

DoOf(n) == Operate("Of", 0, 0, <<>>, <<>>, of(Heap, RTypeOfInt), n)

DoPtrTo(n) ==
    \E elem \in Ids(nodes) :
        Construct("PtrTo", Info(kPtr, <<elem>>, 0, FALSE, <<>>), PtrTo(Heap, elem), n)

DoSliceOf(n) ==
    \E elem \in Ids(nodes) :
        Construct("SliceOf", Info(kSlice, <<elem>>, 0, FALSE, <<>>), SliceOf(Heap, elem), n)

DoChanOf(n) ==
    \E dir \in Dirs, elem \in Ids(nodes) :
        Construct("ChanOf", Info(kChan, <<elem>>, dir, FALSE, <<>>),
                  ChanOf(Heap, dir, elem), n)

DoArrayOf(n) ==
    \E count \in Counts, elem \in Ids(nodes) :
        Construct("ArrayOf", Info(kArray, <<elem>>, count, FALSE, <<>>),
                  ArrayOf(Heap, count, elem), n)

DoMapOf(n) ==
    \E key \in Ids(nodes), elem \in Ids(nodes) :
        Construct("MapOf", Info(kMap, <<key, elem>>, 0, FALSE, <<>>),
                  MapOf(Heap, key, elem), n)

DoFuncOf(n) ==
    \E in \in SeqsUpTo(Ids(nodes), 1), out \in SeqsUpTo(Ids(nodes), 1), variadic \in BOOLEAN :
        Construct("FuncOf", Info(kFunc, in \o out, Len(in), variadic, <<>>),
                  FuncOf(Heap, in, out, variadic), n)

DoStructOf(n) ==
    \E fields \in FieldLists :
        Construct("StructOf",
                  Info(kStruct, [i \in 1..Len(fields) |-> fields[i].Type], 0, FALSE, fields),
                  StructOf(Heap, fields), n)

DoInterfaceOf(n) ==
    Construct("InterfaceOf", Info(kInterface, <<>>, 0, FALSE, <<>>),
              InterfaceOf(Heap, <<>>, <<>>), n)

DoAddMethod(n) ==
    \E t \in Ids(nodes), mtd \in Methods :
        /\ nodes[t].named # <<>> => Len(nodes[t].named[1].vmethod) < MaxMethods
        /\ Operate("AddMethod", t, 0, <<mtd>>, <<>>, AddMethod(Heap, t, mtd), n)

DoDefine(n) ==
    \E t \in Ids(nodes), u \in Ids(nodes) :
        Operate("Define", t, u, <<>>, <<>>, Define(Heap, t, u), n)

\* the package's own calls of computeSize, computeHashStr and completeType
\* on one node, as its tests make them
Apply(op, t, r, n) ==
    Operate(op, t, 0, <<>>, <<>>, Result([Heap EXCEPT !.nodes = r.ns], 0, r.err), n)

DoComputeSize(n) ==
    \E t \in Ids(nodes) : Apply("computeSize", t, computeSize(nodes, t, {}), n)

\* what the write of iSliceType.computeHashStr can do, where it can be reached
SliceOutcomes ==
    IF \E t \in Ids(nodes) : nodes[t].info # <<>> /\ nodes[t].info[1].k = kSlice
    THEN BOOLEAN ELSE {FALSE}

DoComputeHashStr(n) ==
    \E t \in Ids(nodes), ub \in SliceOutcomes :
        Apply("computeHashStr", t, computeHashStr(nodes, t, ub), n)

DoCompleteType(n) ==
    \E t \in Ids(nodes) : Apply("completeType", t, completeType(nodes, t), n)

DoComplete(n) ==
    \E in \in SeqsUpTo(Ids(nodes), MaxRoots), method \in BOOLEAN, ub \in SliceOutcomes :
        /\ in # <<>>
        /\ method => Len(in) = 1
        /\ Operate("Complete", 0, 0, <<>>, in, Complete(Heap, in, method, ub), n)

\* every operation, on heaps of at most MaxNodes nodes
Next ==
    \/ DoNamedOf(MaxNodes)
    \/ DoOf(MaxNodes)
    \/ DoPtrTo(MaxNodes)
    \/ DoSliceOf(MaxNodes)
    \/ DoChanOf(MaxNodes)
    \/ DoArrayOf(MaxNodes)
    \/ DoMapOf(MaxNodes)
    \/ DoFuncOf(MaxNodes)
    \/ DoStructOf(MaxNodes)
    \/ DoInterfaceOf(MaxNodes)
    \/ DoAddMethod(MaxNodes)
    \/ DoDefine(MaxNodes)
    \/ DoComputeSize(MaxNodes)
    \/ DoComputeHashStr(MaxNodes)
    \/ DoCompleteType(MaxNodes)
    \/ DoComplete(MaxNodes)

Spec == Init /\ [][Next]_vars

\* the constructors, on heaps of at most MaxShapes nodes
NextShapes ==
    \/ DoNamedOf(MaxShapes)
    \/ DoOf(MaxShapes)
    \/ DoPtrTo(MaxShapes)
    \/ DoSliceOf(MaxShapes)
    \/ DoChanOf(MaxShapes)
    \/ DoArrayOf(MaxShapes)
    \/ DoMapOf(MaxShapes)
    \/ DoFuncOf(MaxShapes)
    \/ DoStructOf(MaxShapes)
    \/ DoInterfaceOf(MaxShapes)

SpecShapes == Init /\ [][NextShapes]_vars

\* the operations that lead to Complete, on heaps of at most MaxGraph nodes
NextRoots ==
    \/ DoNamedOf(MaxGraph)
    \/ DoPtrTo(MaxGraph)
    \/ DoStructOf(MaxGraph)
    \/ DoDefine(MaxGraph)
    \/ DoCompleteType(MaxGraph)
    \/ DoComplete(MaxGraph)

SpecRoots == Init /\ [][NextRoots]_vars

(***************************************************************************)
(* The layout of structs.  The heap starts as the calls NamedOf("A"),      *)
(* Of(int8), Of(int32), Of(struct{}) leave it; the steps are Define,       *)
(* StructOf and computeSize on heaps of at most MaxLayout nodes.           *)
(***************************************************************************)
\* reflect.TypeOf of int8(0), int32(0) and struct{}{}
BasicTypes ==
    <<RType(kInt8, TRUE, <<>>, 0, 0, 1, 1, TRUE),
      RType(kInt32, TRUE, <<>>, 0, 0, 4, 4, TRUE),
      RType(kStruct, FALSE, <<>>, 0, 0, 0, 1, TRUE)>>

\* the heap after Of on each of the types of rtyps from i on
RECURSIVE ofEach(_, _, _)
ofEach(h, rtyps, i) ==
    IF i > Len(rtyps) THEN h ELSE ofEach(of(h, rtyps[i]).h, rtyps, i + 1)

emptyHeap ==
    [nodes |-> <<>>, ofMap |-> <<>>, lookupCache |-> <<>>, funcLookupCache |-> <<>>,
     structLookupCache |-> <<>>]

InitLayout ==
    LET h == ofEach(NamedOf(emptyHeap, "A").h, BasicTypes, 1)
    IN /\ nodes = h.nodes
       /\ ofMap = h.ofMap
       /\ lookupCache = h.lookupCache
       /\ funcLookupCache = h.funcLookupCache
       /\ structLookupCache = h.structLookupCache
       /\ call = Call("", 0, 0, <<>>, <<>>, <<>>, 0, "")
       /\ returned = <<>>
       /\ sess = [s \in Sessions |-> idle]

NextLayout ==
    \/ DoDefine(MaxLayout)
    \/ DoStructOf(MaxLayout)
    \/ DoComputeSize(MaxLayout)

SpecLayout == InitLayout /\ [][NextLayout]_vars

\* the API that builds types which contain themselves, and Complete, on
\* heaps of at most MaxGraph nodes
NextLoops ==
    \/ DoNamedOf(MaxGraph)
    \/ DoPtrTo(MaxGraph)
    \/ DoArrayOf(MaxGraph)
    \/ DoStructOf(MaxGraph)
    \/ DoDefine(MaxGraph)
    \/ DoComplete(MaxGraph)

SpecLoops == Init /\ [][NextLoops]_vars

\* int and a named type, as the builder of a list type holds them
InitList ==
    LET h0 == of(emptyHeap, RTypeOfInt).h
        h == NamedOf(h0, "A").h
    IN /\ nodes = h.nodes
       /\ ofMap = h.ofMap
       /\ lookupCache = h.lookupCache
       /\ funcLookupCache = h.funcLookupCache
       /\ structLookupCache = h.structLookupCache
       /\ call = Call("", 0, 0, <<>>, <<>>, <<>>, 0, "")
       /\ returned = <<>>
       /\ sess = [s \in Sessions |-> idle]

\* the API that builds a type which points to itself, on heaps of at most
\* MaxList nodes
NextList ==
    \/ DoPtrTo(MaxList)
    \/ DoStructOf(MaxList)
    \/ DoDefine(MaxList)

SpecList == InitList /\ [][NextList]_vars

\* a named type, the pointer to it and the map from the one to the other
InitMaps ==
    LET h0 == NamedOf(emptyHeap, "A").h
        h1 == PtrTo(h0, 1).h
        h == MapOf(h1, 1, 2).h
    IN /\ nodes = h.nodes
       /\ ofMap = h.ofMap
       /\ lookupCache = h.lookupCache
       /\ funcLookupCache = h.funcLookupCache
       /\ structLookupCache = h.structLookupCache
       /\ call = Call("", 0, 0, <<>>, <<>>, <<>>, 0, "")
       /\ returned = <<>>
       /\ sess = [s \in Sessions |-> idle]

\* maps, pointers to them, Define and Complete, on heaps of at most MaxMaps
\* nodes
NextMaps ==
    \/ DoPtrTo(MaxMaps)
    \/ DoMapOf(MaxMaps)
    \/ DoDefine(MaxMaps)
    \/ DoComplete(MaxMaps)

SpecMaps == InitMaps /\ [][NextMaps]_vars

\* lists of two fields whose names are a valid one, the empty one or one
\* that is no identifier
NamedPairs ==
    {<<StructField(n1, "", t1, FALSE), StructField(n2, "", t2, FALSE)>> :
        n1 \in {"F", "", "1x"}, n2 \in {"F", "", "1x"},
        t1 \in Ids(nodes), t2 \in Ids(nodes)}

DoStructOfNamed(n) ==
    \E fields \in NamedPairs :
        Construct("StructOf",
                  Info(kStruct, [i \in 1..Len(fields) |-> fields[i].Type], 0, FALSE, fields),
                  StructOf(Heap, fields), n)

\* StructOf on lists of two fields, over named and complete types, on heaps
\* of at most MaxFields nodes
NextFields ==
    \/ DoNamedOf(MaxFields)
    \/ DoOf(MaxFields)
    \/ DoStructOfNamed(MaxFields)

SpecFields == Init /\ [][NextFields]_vars

(***************************************************************************)
(* The hash and the string that computeHashStr writes in the rtype of an   *)
(* interface node.  A uint32 is the pair <<high half, low half>> of its    *)
(* 16-bit halves.                                                          *)
(***************************************************************************)
half == 65536

\* the exclusive or of the n low bits of a and b
RECURSIVE xor(_, _, _)
xor(a, b, n) ==
    IF n = 0 THEN 0 ELSE ((a + b) % 2) + 2 * xor(a \div 2, b \div 2, n - 1)

\* 16777619, the multiplier of reflect.fnv1, is 2^24 + fnvPrimeLow
fnvPrimeLow == 403

\* one round of reflect.fnv1: x = x*16777619 ^ uint32(b), modulo 2^32
fnvRound(x, b) ==
    LET c == x[2] * fnvPrimeLow
    IN <<(x[1] * fnvPrimeLow + (c \div half) + (x[2] % 256) * 256) % half,
         xor(c % half, b, 16)>>

RECURSIVE fnv1(_, _, _)
fnv1(x, list, i) == IF i > Len(list) THEN x ELSE fnv1(fnvRound(x, list[i]), list, i + 1)

fnv4(x, y) == fnv1(x, <<y[1] \div 256, y[1] % 256, y[2] \div 256, y[2] % 256>>, 1)

\* uint32(0x12345678)
hashSeed == <<4660, 22136>>

\* the two halves of uintptr(unsafe.Pointer(t.incomplete)): the allocator
\* gives every rtype its own address
addrHigh(t) == <<0, 192>>
addrLow(t) == <<t, 0>>

\* m1.PkgPath < m2.PkgPath and m1.Name < m2.Name, on the strings in use
strLess(a, b) ==
    LET rank == [str \in {"", "M", "N", "p", "q"} |->
                    CASE str = "" -> 0 [] str = "M" -> 1 [] str = "N" -> 2
                      [] str = "p" -> 3 [] OTHER -> 4]
    IN rank[a] < rank[b]

methodNameLess(m1, m2) ==
    IF strLess(m1.PkgPath, m2.PkgPath) THEN TRUE
    ELSE m1.PkgPath = m2.PkgPath /\ strLess(m1.Name, m2.Name)

\* the inner loop of sortByName for gap 1: temp goes down from position j
RECURSIVE sortInsert(_, _, _)
sortInsert(m, temp, j) ==
    IF j >= 2 /\ methodNameLess(temp, m[j - 1])
    THEN sortInsert([m EXCEPT ![j] = m[j - 1]], temp, j - 1)
    ELSE [m EXCEPT ![j] = temp]

\* sortByName on a list shorter than every gap but the last, from i on
RECURSIVE sortByName(_, _)
sortByName(m, i) == IF i > Len(m) THEN m ELSE sortByName(sortInsert(m, m[i], i), i + 1)

\* t.incomplete.hash as computeHashStr leaves it, for the named, the pointer
\* and the interface nodes
RECURSIVE hashOf(_, _)
RECURSIVE foldHash(_, _, _, _)
foldHash(ns, hash, ts, i) ==
    IF i > Len(ts) THEN hash ELSE foldHash(ns, fnv4(hash, hashOf(ns, ts[i])), ts, i + 1)

hashOf(ns, t) ==
    IF ns[t].named # <<>> THEN fnv4(addrHigh(t), addrLow(t))
    ELSE IF ns[t].info[1].k = kPtr THEN fnv1(hashOf(ns, ns[t].info[1].ch[1]), <<42>>, 1)
    ELSE LET info == ns[t].info[1]
             embedded == foldHash(ns, hashSeed, info.ch, 1)
         IN foldHash(ns, embedded, [i \in 1..Len(info.fields) |-> info.fields[i].Type], 1)

\* info.allMethod of an interface node without embedded types
allMethod(ns, t) == sortByName(ns[t].info[1].fields, 1)

\* Method.printTo on the methods of m from i on: each call returns the
\* longer text, and iInterfaceType.printTo drops what it returns
RECURSIVE printMethods(_, _, _)
printMethods(dst, m, i) == IF i > Len(m) THEN dst ELSE printMethods(dst, m, i + 1)

\* t.string() of an interface node
interfaceString(ns, t) ==
    IF Len(allMethod(ns, t)) = 0 THEN "interface{}"
    ELSE printMethods("interface{", allMethod(ns, t), 1) \o " }"

\* the named type A defined as *A, as the types of the methods
InitIface ==
    LET h0 == NamedOf(emptyHeap, "A").h
        h1 == PtrTo(h0, 1).h
        h == Define(h1, 1, 2).h
    IN /\ nodes = h.nodes
       /\ ofMap = h.ofMap
       /\ lookupCache = h.lookupCache
       /\ funcLookupCache = h.funcLookupCache
       /\ structLookupCache = h.structLookupCache
       /\ call = Call("", 0, 0, <<>>, <<>>, <<>>, 0, "")
       /\ returned = <<>>
       /\ sess = [s \in Sessions |-> idle]

\* the lists of methods without repetition, over two names and the types
\* of the heap
MethodLists ==
    LET one == {Method(name, "", t) : name \in {"M", "N"}, t \in Ids(nodes)}
    IN {<<>>} \cup {<<m>> : m \in one}
       \cup {m \in one \X one : m[1].Name # m[2].Name}

DoInterfaceOfMethods(n) ==
    \E method \in MethodLists :
        Construct("InterfaceOf", Info(kInterface, <<>>, 0, FALSE, method),
                  InterfaceOf(Heap, <<>>, method), n)

\* interfaces with methods and computeHashStr, on heaps of at most MaxIface
\* nodes
NextIface ==
    \/ DoInterfaceOfMethods(MaxIface)
    \/ DoComputeHashStr(MaxIface)

SpecIface == InitIface /\ [][NextIface]_vars

\* a count of a few elements, and one whose product with the size of a
\* pointer is MaxUintptr + 1
BigCounts == {2, (MaxUintptr + 1) \div ptrSize}

DoArrayOfBig(n) ==
    \E count \in BigCounts, elem \in Ids(nodes) :
        Construct("ArrayOf", Info(kArray, <<elem>>, count, FALSE, <<>>),
                  ArrayOf(Heap, count, elem), n)

\* arrays of named types and of pointers, Define and computeSize, on heaps
\* of at most MaxArrays nodes
NextArrays ==
    \/ DoNamedOf(MaxArrays)
    \/ DoPtrTo(MaxArrays)
    \/ DoArrayOfBig(MaxArrays)
    \/ DoDefine(MaxArrays)
    \/ DoComputeSize(MaxArrays)

SpecArrays == Init /\ [][NextArrays]_vars

\* a named type and the slice of it, which a variadic func can end with
InitKeys ==
    LET h0 == NamedOf(emptyHeap, "A").h
        h == SliceOf(h0, 1).h
    IN /\ nodes = h.nodes
       /\ ofMap = h.ofMap
       /\ lookupCache = h.lookupCache
       /\ funcLookupCache = h.funcLookupCache
       /\ structLookupCache = h.structLookupCache
       /\ call = Call("", 0, 0, <<>>, <<>>, <<>>, 0, "")
       /\ returned = <<>>
       /\ sess = [s \in Sessions |-> idle]

\* the constructors that look their result up by a key, on heaps of at most
\* MaxKeys nodes
NextKeys ==
    \/ DoPtrTo(MaxKeys)
    \/ DoSliceOf(MaxKeys)
    \/ DoChanOf(MaxKeys)
    \/ DoArrayOfBig(MaxKeys)
    \/ DoFuncOf(MaxKeys)

SpecKeys == InitKeys /\ [][NextKeys]_vars

(***************************************************************************)
(* The earlier revision of Define: its descendType compares the two        *)
(* pointers without testing them for nil, and its allocUncommonType        *)
(* switches on the dynamic type of the underlying type's info.             *)
(***************************************************************************)
RECURSIVE descendLoopOld(_, _, _, _)
descendLoopOld(ns, t1, t2, last) ==
    IF t1 = 0 THEN [last |-> last, loop |-> FALSE]
    ELSE LET n1 == next(ns, t1)
             n2 == next(ns, next(ns, t2))
         IN IF n1 = n2 THEN [last |-> t1, loop |-> TRUE]
            ELSE descendLoopOld(ns, n1, n2, t1)

descendTypeOld(ns, t) ==
    LET r == descendLoopOld(ns, t, t, t)
    IN IF r.loop
       THEN NsResult([ns EXCEPT ![t].info = <<>>], FALSE,
                     "incomplete.Type.Define(): invalid Type loop")
       ELSE NsResult([ns EXCEPT ![t].info = <<Info(kItype, <<r.last>>, 0, FALSE, <<>>)>>],
                     TRUE, "")

allocUncommonTypeOld(ns, t) ==
    LET u == ns[t].info[1].ch[1]
    IN IF ns[u].info = <<>> \/ ns[u].info[1].k = kItype
       THEN NsResult(ns, FALSE, "unexpected info type")
       ELSE IF ns[u].info[1].k = kInterface
       THEN NsResult(ns, FALSE, "unimplemented: named interface type")
       ELSE NsResult([ns EXCEPT ![t].incomplete = ns[u].incomplete], TRUE, "")

DefineOld(h, t, u) ==
    LET ns == h.nodes
        ns1 == [ns EXCEPT ![t].info = <<Info(kItype, <<u>>, 0, FALSE, <<>>)>>]
        r2 == descendTypeOld(ns1, t)
        r3 == allocUncommonTypeOld(r2.ns, t)
        r4 == itypeComputeSize(r3.ns, t, t, {})
        fail(r) == Result([h EXCEPT !.nodes = r.ns], 0, r.err)
    IN IF iflagDefined \in ns[t].iflag
       THEN Result(h, 0, "incomplete.Type.Define: already invoked on this type")
       ELSE IF ns[t].named = <<>>
       THEN Result(h, 0, "incomplete.Type.Define: type not created with NamedOf")
       ELSE IF ns[t].complete # <<>>
       THEN Result(h, 0, "incomplete.Type.Define: type is already complete")
       ELSE IF r2.err # "" THEN fail(r2)
       ELSE IF r3.err # "" THEN fail(r3)
       ELSE IF r4.err # "" THEN fail(r4)
       ELSE Result([h EXCEPT !.nodes = [r4.ns EXCEPT ![t].iflag = @ \cup {iflagDefined}]],
                   0, "")

DoDefineOld(n) ==
    \E t \in Ids(nodes), u \in Ids(nodes) :
        Operate("Define", t, u, <<>>, <<>>, DefineOld(Heap, t, u), n)

NextOld ==
    \/ DoNamedOf(MaxGraph)
    \/ DoOf(MaxGraph)
    \/ DoPtrTo(MaxGraph)
    \/ DoStructOf(MaxGraph)
    \/ DoDefineOld(MaxGraph)

SpecOld == Init /\ [][NextOld]_vars

(***************************************************************************)
(* Concurrent sessions.  A constructor that uses the lookupCache is two    *)
(* steps of its session: the Load of the key, and, on a miss, the making   *)
(* of the node and canonicalize (LoadOrStore).  The steps of the sessions  *)
(* interleave.                                                             *)
(***************************************************************************)
CachedCalls ==
    {[op |-> "PtrTo", extra |-> 0], [op |-> "SliceOf", extra |-> 0]}
    \cup {[op |-> "ChanOf", extra |-> dir] : dir \in Dirs}
    \cup {[op |-> "ArrayOf", extra |-> count] : count \in Counts}

kindOf(op) ==
    CASE op = "PtrTo" -> kPtr [] op = "SliceOf" -> kSlice
      [] op = "ChanOf" -> kChan [] op = "ArrayOf" -> kArray

LoadOf(h, op, extra, elem) ==
    CASE op = "PtrTo" -> PtrToLoad(h, elem)
      [] op = "SliceOf" -> SliceOfLoad(h, elem)
      [] op = "ChanOf" -> ChanOfLoad(h, extra, elem)
      [] op = "ArrayOf" -> ArrayOfLoad(h, extra, elem)

MakeOf(h, op, extra, elem) ==
    CASE op = "PtrTo" -> PtrToMake(h, elem)
      [] op = "SliceOf" -> SliceOfMake(h, elem)
      [] op = "ChanOf" -> ChanOfMake(h, extra, elem)
      [] op = "ArrayOf" -> ArrayOfMake(h, extra, elem)

Return(s, op, shape, r) ==
    /\ call' = Call(op, 0, 0, <<shape>>, <<>>, <<>>, r.ret, r.err)
    /\ returned' = IF r.err = "" /\ hasIncompleteChild(nodes, shape)
                   THEN record(r.ret, shape) ELSE returned
    /\ sess' = [sess EXCEPT ![s] = [idle EXCEPT !.ret = r.ret]]

\* session s calls a constructor: up to the Load of the key
CallLoad(s) ==
    /\ sess[s].pc = "idle"
    /\ \E c \in CachedCalls, elem \in Ids(nodes) :
          LET r == LoadOf(Heap, c.op, c.extra, elem)
              shape == Info(kindOf(c.op), <<elem>>, c.extra, FALSE, <<>>)
          IN /\ Commit(r, MaxShapes)
             /\ IF r.ret # 0 \/ r.err # ""
                THEN Return(s, c.op, shape, r)
                ELSE /\ sess' = [sess EXCEPT ![s] = [pc |-> "make", op |-> c.op,
                                                      elem |-> elem, extra |-> c.extra,
                                                      ret |-> 0]]
                     /\ UNCHANGED <<call, returned>>

\* session s, after a miss: the new node and canonicalize
CallCanonicalize(s) ==
    /\ sess[s].pc = "make"
    /\ LET c == sess[s]
           r == MakeOf(Heap, c.op, c.extra, c.elem)
       IN /\ Commit(r, MaxShapes)
          /\ Return(s, c.op, Info(kindOf(c.op), <<c.elem>>, c.extra, FALSE, <<>>), r)

NextConc ==
    \/ DoNamedOf(MaxShapes)
    \/ DoOf(MaxShapes)
    \/ \E s \in Sessions : CallLoad(s)
    \/ \E s \in Sessions : CallCanonicalize(s)

SpecConc == Init /\ [][NextConc]_vars

(***************************************************************************)
(* The claims.                                                             *)
(***************************************************************************)
\* u, or a type reached from u by following the links from a named type to
\* its underlying type, is t
RECURSIVE leadsTo(_, _, _, _)
leadsTo(ns, u, t, fuel) ==
    IF u = 0 THEN FALSE
    ELSE IF u = t THEN TRUE
    ELSE IF fuel = 0 THEN FALSE
    ELSE leadsTo(ns, next(ns, u), t, fuel - 1)

\* t is a type made by NamedOf that Define can still be called on
definable(ns, t) ==
    ns[t].named # <<>> /\ ns[t].complete = <<>> /\ iflagDefined \notin ns[t].iflag

\* C1: a call Define(T, u) on a named type T not yet defined, where u is T
\* or the chain of underlying-type links from u leads back to T, panics
\* with "invalid Type loop" and does not mark T as defined.
C1_DefineLoopIsRejected ==
    [][(/\ call'.op = "Define"
        /\ definable(nodes, call'.t)
        /\ leadsTo(nodes, call'.u, call'.t, Len(nodes)))
       => /\ call'.err = "incomplete.Type.Define(): invalid Type loop"
          /\ iflagDefined \notin nodes'[call'.t].iflag]_vars

\* C1 happened: Define(T, u) with u another named type whose link leads back
\* to T has raised the loop panic
C1_Witness ==
    /\ call.op = "Define"
    /\ call.u # call.t
    /\ call.err = "incomplete.Type.Define(): invalid Type loop"
    /\ next(nodes, call.u) = call.t
    /\ iflagDefined \notin nodes[call.t].iflag

\* C2: Define(T, PtrTo(T)) on a fresh named type T succeeds, and descendType
\* raises the loop panic only when the two pointers meet at a non-nil node:
\* a Define whose chain of links from u ends does not raise it.
C2_DefineChainThatEnds ==
    [][(/\ call'.op = "Define"
        /\ definable(nodes, call'.t)
        /\ ~leadsTo(nodes, call'.u, call'.t, Len(nodes)))
       => /\ call'.err # "incomplete.Type.Define(): invalid Type loop"
          /\ (/\ nodes[call'.t].info = <<>>
              /\ nodes[call'.u].info = <<Info(kPtr, <<call'.t>>, 0, FALSE, <<>>)>>)
             => call'.err = ""]_vars

\* C3: once Define has succeeded on t, every further Define(t, v) panics with
\* "already invoked" and leaves t (its underlying type, its flags, its size)
\* as it was.
C3_DefineOnlyOnce ==
    [][(call'.op = "Define" /\ iflagDefined \in nodes[call'.t].iflag)
       => /\ call'.err = "incomplete.Type.Define: already invoked on this type"
          /\ nodes'[call'.t] = nodes[call'.t]]_vars

\* C3 happened: a second Define on a defined type has panicked
C3_Witness ==
    /\ call.op = "Define"
    /\ call.err = "incomplete.Type.Define: already invoked on this type"
    /\ iflagDefined \in nodes[call.t].iflag
    /\ iflagSize \in nodes[call.t].iflag

\* C4: once the field complete of a node is not nil, no operation changes
\* the node: Define and AddMethod on it panic, and computeSize,
\* computeHashStr and completeType on it return without a panic.
C4_CompleteIsFinal ==
    [][/\ \A t \in Ids(nodes) : nodes[t].complete # <<>> => nodes'[t] = nodes[t]
       /\ (call'.t # 0 /\ nodes[call'.t].complete # <<>>)
          => /\ call'.op \in {"Define", "AddMethod"} => call'.err # ""
             /\ call'.op \in {"computeSize", "computeHashStr", "completeType"}
                => call'.err = ""]_vars

\* C4 happened: AddMethod was called on a named type completed by Complete
\* or completeType, and has panicked
C4_Witness ==
    /\ call.op = "AddMethod"
    /\ call.err = "incomplete.Type.AddMethod: type is already complete"
    /\ nodes[call.t].complete # <<>>
    /\ nodes[call.t].incomplete # <<>>

clash(ns, t, mtd) ==
    \E i \in 1..Len(ns[t].named[1].vmethod) :
        LET m == ns[t].named[1].vmethod[i]
        IN \/ m.Name = mtd.Name
           \/ mtd.PkgPath # "" /\ m.PkgPath # "" /\ m.PkgPath # mtd.PkgPath

\* C5: AddMethod(t, m) panics if t already has a method named m.Name, or if
\* m.PkgPath is not empty and differs from the non-empty PkgPath of a method
\* added before; the list of methods is then unchanged.
C5_AddMethodRejectsClash ==
    [][(/\ call'.op = "AddMethod"
        /\ nodes[call'.t].named # <<>>
        /\ clash(nodes, call'.t, call'.mtd[1]))
       => /\ call'.err # ""
          /\ nodes'[call'.t].named = nodes[call'.t].named]_vars

\* C6: the calls of a constructor with the same arguments, one of them at
\* least an incomplete type, all return the same node.
C6_SameArgumentsSameNode ==
    \A shape \in DOMAIN returned : Cardinality(returned[shape]) <= 1

\* C7: whatever the interleaving of the sessions, the calls of a cached
\* constructor with the same key all return the same node, and it is the
\* one entry of the lookupCache for the key.
C7_OneNodePerKey ==
    \A shape \in DOMAIN returned :
        LET ckey == cacheKey(shape.k, shape.ch[1], 0, shape.extra)
        IN /\ ckey \in DOMAIN lookupCache
           /\ returned[shape] = {lookupCache[ckey]}

\* C7 happened: both sessions missed the key in the cache, each made a node,
\* and both have returned the same one
C7_Witness ==
    /\ \A s \in Sessions : sess[s].pc = "idle" /\ sess[s].ret # 0
    /\ sess[1].ret = sess[2].ret
    /\ Len(nodes) = MaxShapes
    /\ \E shape \in DOMAIN returned :
           /\ returned[shape] = {sess[1].ret}
           /\ \E t \in Ids(nodes) : t # sess[1].ret /\ nodes[t].info = <<shape>>

\* C8: the node a constructor (ArrayOf, ChanOf, FuncOf, MapOf, PtrTo,
\* SliceOf, StructOf) returns has its field complete set if and only if
\* every child has; with an incomplete child it has complete nil and
\* carries the shape it was asked for.
C8_CompleteIffChildrenComplete ==
    [][(call'.op \in constructors \ {"InterfaceOf"} /\ call'.err = "")
       => LET shape == call'.shape[1]
              t == nodes'[call'.ret]
          IN /\ t.complete # <<>> <=> ~hasIncompleteChild(nodes, shape)
             /\ hasIncompleteChild(nodes, shape) => t.info = <<shape>>]_vars

C10_FailedCompleteSetsNoRoot ==
    [][(call'.op = "Complete" /\ call'.err # "")
       => \A k \in 1..Len(call'.in) :
              nodes[call'.in[k]].complete = <<>>
              => nodes'[call'.in[k]].complete = <<>>]_vars

(***************************************************************************)
(* Claims about what Complete returns and calls.                           *)
(***************************************************************************)
\* C11: when Complete returns normally, the list it returns has the length
\* of in, and its i-th element is the realized type of in[i].
C11_CompleteReturnsRealizedRoots ==
    [][(call'.op = "Complete" /\ call'.err = "")
       => /\ Len(call'.out) = Len(call'.in)
          /\ \A i \in 1..Len(call'.in) :
                /\ nodes'[call'.in[i]].complete # <<>>
                /\ call'.out[i] = nodes'[call'.in[i]].complete[1]]_vars

\* the children of node t: its underlying type, or the parts of its shape
children(ns, t) ==
    IF ns[t].info = <<>> THEN {}
    ELSE {ns[t].info[1].ch[i] : i \in 1..Len(ns[t].info[1].ch)}

\* the nodes that the nodes of S reach through child edges, S included
RECURSIVE reachable(_, _)
reachable(ns, S) ==
    LET S1 == S \cup UNION {children(ns, t) : t \in S}
    IN IF S1 = S THEN S ELSE reachable(ns, S1)

\* a node made by NamedOf on which no Define has returned
neverDefined(ns, t) ==
    ns[t].named # <<>> /\ ns[t].complete = <<>> /\ iflagDefined \notin ns[t].iflag

roots(in) == {in[i] : i \in 1..Len(in)}

methodNotNil == "incomplete.Complete: argument 'method' must currently be nil"

\* Complete(in, nil) panics in its size loop or at its test of iflagSize
failsInSizePhase(ns, in) ==
    LET r == sizeLoop(ns, in, 1) IN r.err # "" \/ unsized(r.ns, in) # {}

\* C12: Complete fails in its size phase, before any computeHashStr or
\* completeType step, whenever a root reaches through child edges of any kind
\* a node made by NamedOf and never defined.
C12_UndefinedNamedFailsSizePhase ==
    [][(/\ call'.op = "Complete"
        /\ call'.err # methodNotNil
        /\ \E t \in reachable(nodes, roots(call'.in)) : neverDefined(nodes, t))
       => /\ call'.err # ""
          /\ failsInSizePhase(nodes, call'.in)
          /\ nodes' = sizeLoop(nodes, call'.in, 1).ns]_vars

\* the calls of its argument method that Complete makes, in order: Complete
\* panics when method is not nil, and neither it nor completeMethods calls it
methodCalls(h, in, method) == <<>>

\* the methods added with AddMethod to the nodes of S: receiver and position
declared(ns, S) ==
    {[t |-> t, i |-> i] : t \in {x \in S : ns[x].named # <<>>}, i \in 1..MaxMethods}
        \cap {d \in [t : S, i : 1..MaxMethods] :
                  ns[d.t].named # <<>> /\ d.i <= Len(ns[d.t].named[1].vmethod)}

\* C13: during a Complete that returns normally, the callback is called
\* exactly once for each method added with AddMethod to a node of the batch
\* (the roots and what they reach), and is not called otherwise.
C13_CallbackOncePerMethod ==
    [][(call'.op = "Complete" /\ call'.err = "")
       => LET calls == methodCalls(Heap, call'.in, FALSE)
              batch == declared(nodes, reachable(nodes, roots(call'.in)))
          IN /\ \A d \in batch : Cardinality({j \in 1..Len(calls) : calls[j] = d}) = 1
             /\ \A j \in 1..Len(calls) : calls[j] \in batch]_vars

(***************************************************************************)
(* Claims about computeSize.                                               *)
(***************************************************************************)
\* what size(), align() and fieldAlign() answer for node t
triple(ns, t) == <<size(ns, t), align(ns, t), fieldAlign(ns, t)>>

\* a call of computeSize on t would change no node
settled(ns, t) == computeSize(ns, t, {}).ns = ns

RECURSIVE laidOut(_, _, _, _)
laidOut(ns, fields, i, end) ==
    IF i > Len(fields) THEN end
    ELSE LET f == fields[i].Type
             al == align(ns, f)
             offset == CHOOSE o \in end..(end + al) :
                           o % al = 0 /\ \A o2 \in end..(o - 1) : o2 % al # 0
         IN laidOut(ns, fields, i + 1, offset + size(ns, f))

largestAlign(ns, fields) ==
    CHOOSE a \in {align(ns, fields[i].Type) : i \in 1..Len(fields)} :
        \A i \in 1..Len(fields) : align(ns, fields[i].Type) <= a

\* C15: computeSize on a struct node whose fields all have a known size sets
\* its size to the end of the fields laid out in declaration order, each at
\* an offset rounded up to its alignment, plus one byte when that is not zero
\* and the last field has size zero, and its alignment to the largest
\* alignment of a field.
C15_StructLayout ==
    [][(/\ call'.op = "computeSize"
        /\ call'.err = ""
        /\ nodes[call'.t].complete = <<>>
        /\ iflagSize \notin nodes[call'.t].iflag
        /\ nodes[call'.t].info # <<>>
        /\ nodes[call'.t].info[1].k = kStruct
        /\ \A i \in 1..Len(nodes[call'.t].info[1].fields) :
               iflagSize \in nodes'[nodes[call'.t].info[1].fields[i].Type].iflag)
       => LET t == call'.t
              fields == nodes[t].info[1].fields
              end == laidOut(nodes', fields, 1, 0)
              last == fields[Len(fields)].Type
          IN /\ iflagSize \in nodes'[t].iflag
             /\ size(nodes', t) = IF end > 0 /\ size(nodes', last) = 0 THEN end + 1 ELSE end
             /\ align(nodes', t) = largestAlign(nodes', fields)]_vars

\* C15 happened: computeSize has given a struct with a first field of size 1
\* and alignment 1 and a second of size 4 and alignment 4 the size 8
C15_Witness ==
    /\ call.op = "computeSize"
    /\ call.err = ""
    /\ nodes[call.t].info # <<>>
    /\ nodes[call.t].info[1].k = kStruct
    /\ Len(nodes[call.t].info[1].fields) = 2
    /\ triple(nodes, nodes[call.t].info[1].fields[1].Type) = <<1, 1, 1>>
    /\ triple(nodes, nodes[call.t].info[1].fields[2].Type) = <<4, 4, 4>>
    /\ triple(nodes, call.t) = <<8, 4, 4>>

\* C16: an array node whose size is known has the size count times the size
\* of its element, and the align and fieldAlign of its element, whether
\* ArrayOf or computeSize has marked the size known.
C16_ArraySizeIsCountTimesElem ==
    \A t \in Ids(nodes) :
        (/\ nodes[t].info # <<>>
         /\ nodes[t].info[1].k = kArray
         /\ iflagSize \in nodes[t].iflag)
        => LET elem == nodes[t].info[1].ch[1]
           IN /\ size(nodes, t) = (nodes[t].info[1].extra * size(nodes, elem))
                                      % (MaxUintptr + 1)
              /\ align(nodes, t) = align(nodes, elem)
              /\ fieldAlign(nodes, t) = fieldAlign(nodes, elem)

\* the children a node holds by value: the element of an array, the fields
\* of a struct
parts(ns, t) ==
    IF ns[t].info # <<>> /\ ns[t].info[1].k \in {kArray, kStruct}
    THEN children(ns, t) ELSE {}

\* the nodes that the nodes of S hold by value through arrays and structs
\* only, S included
RECURSIVE inside(_, _)
inside(ns, S) ==
    LET S1 == S \cup UNION {parts(ns, t) : t \in S}
    IN IF S1 = S THEN S ELSE inside(ns, S1)

\* the underlying type of the named node t holds t by value
holdsItself(ns, t) ==
    /\ ns[t].named # <<>>
    /\ ns[t].info # <<>>
    /\ ns[t].info[1].k = kItype
    /\ ns[t].info[1].ch[1] # t
    /\ t \in inside(ns, {ns[t].info[1].ch[1]})

loopInSize == "invalid Type loop detected: cannot compute size"

\* C17: Define(Bad, u), where u holds Bad by value through arrays and structs
\* only, raises the 'invalid Type loop' error of the size computation, leaves
\* Bad without a known size and without a realized handle, and no later call
\* gives Bad a realized handle while its underlying type holds it.
C17_ByValueLoopIsRejected ==
    [][/\ (/\ call'.op = "Define"
           /\ definable(nodes, call'.t)
           /\ call'.u # call'.t
           /\ call'.t \in inside(nodes, {call'.u}))
          => /\ call'.err = loopInSize
             /\ iflagSize \notin nodes'[call'.t].iflag
             /\ iflagDefined \notin nodes'[call'.t].iflag
             /\ nodes'[call'.t].complete = <<>>
       /\ \A t \in Ids(nodes) :
              (holdsItself(nodes, t) /\ holdsItself(nodes', t)
                   /\ nodes[t].complete = <<>>)
              => nodes'[t].complete = <<>> /\ iflagSize \notin nodes'[t].iflag]_vars

\* t is a node as NamedOf returns it
fresh(ns, t) ==
    /\ ns[t].named # <<>>
    /\ ns[t].iflag = {}
    /\ ns[t].incomplete = <<>>
    /\ ns[t].complete = <<>>
    /\ ns[t].info = <<>>

\* u is an incomplete node made by PtrTo
isPtr(ns, u) == ns[u].complete = <<>> /\ ns[u].info # <<>> /\ ns[u].info[1].k = kPtr

\* C18: Define(List, u) on a fresh named node List, with u made by PtrTo of an
\* incomplete type (as PtrTo(StructOf{Value int; Next List})), returns
\* normally and leaves List defined with a known size, the size of a pointer,
\* whether or not the size of what u points to is known.
C18_DefineThroughPointer ==
    [][(call'.op = "Define" /\ fresh(nodes, call'.t) /\ isPtr(nodes, call'.u))
       => /\ call'.err = ""
          /\ {iflagSize, iflagDefined} \subseteq nodes'[call'.t].iflag
          /\ triple(nodes', call'.t) = <<ptrSize, ptrSize, ptrSize>>
          /\ nodes'[call'.t].complete = <<>>]_vars

\* C18 happened: List is defined as the pointer to the struct of an int and
\* List, has the size of a pointer, and the struct has no known size
C18_Witness ==
    /\ call.op = "Define"
    /\ call.err = ""
    /\ isPtr(nodes, call.u)
    /\ LET s == nodes[call.u].info[1].ch[1]
       IN /\ nodes[s].info # <<>>
          /\ nodes[s].info[1].k = kStruct
          /\ Len(nodes[s].info[1].ch) = 2
          /\ nodes[nodes[s].info[1].ch[1]].complete = <<RTypeOfInt>>
          /\ nodes[s].info[1].ch[2] = call.t
          /\ iflagSize \notin nodes[s].iflag
    /\ iflagDefined \in nodes[call.t].iflag
    /\ size(nodes, call.t) = ptrSize

\* the nodes whose size the size of the nodes of S is computed from: the
\* underlying type of a named type, the element of an array, the fields of a
\* struct, S included
RECURSIVE sizedFrom(_, _)
sizedFrom(ns, S) ==
    LET held(t) == IF ns[t].info # <<>> /\ ns[t].info[1].k \in {kItype, kArray, kStruct}
                   THEN children(ns, t) ELSE {}
        S1 == S \cup UNION {held(t) : t \in S}
    IN IF S1 = S THEN S ELSE sizedFrom(ns, S1)

\* C19: computeSize on a node whose size depends on a named node that was
\* never defined (the node itself, or one it holds by value) raises no error
\* and returns with the node's size still unknown.
C19_UndefinedSizeIsNotFatal ==
    [][(/\ call'.op = "computeSize"
        /\ nodes[call'.t].complete = <<>>
        /\ iflagSize \notin nodes[call'.t].iflag
        /\ \E x \in sizedFrom(nodes, {call'.t}) : fresh(nodes, x))
       => /\ call'.err = ""
          /\ iflagSize \notin nodes'[call'.t].iflag]_vars

\* the maps among the nodes of S
maps(ns, S) == {m \in S : ns[m].info # <<>> /\ ns[m].info[1].k = kMap}

\* info.key of the map node m
keyOf(ns, m) == ns[m].info[1].ch[1]

\* the type that node k stands for cannot be compared: its rtype, whichever
\* the node holds, has no equal function
notComparable(ns, k) ==
    \/ ns[k].complete # <<>> /\ ~ns[k].complete[1].cmp
    \/ ns[k].incomplete # <<>> /\ ~ns[k].incomplete[1].equal

\* C20: MapOf raises when the comparability of its key is known to be false,
\* and Complete raises for every batch whose roots reach a map whose key
\* type has turned out not to be comparable.
C20_MapKeyMustBeComparable ==
    [][/\ (/\ call'.op = "MapOf"
           /\ nodes[call'.shape[1].ch[1]].comparable = tfalse)
          => call'.err # ""
       /\ (/\ call'.op = "Complete"
           /\ \E m \in maps(nodes, reachable(nodes, roots(call'.in))) :
                  notComparable(nodes, keyOf(nodes, m)))
          => call'.err # ""]_vars

\* a list of fields with an empty name, a name that is no identifier, or
\* two fields of one name
badNames(fields) ==
    \/ \E i \in 1..Len(fields) : fields[i].Name = "" \/ ~isValidFieldName(fields[i].Name)
    \/ \E i, j \in 1..Len(fields) : i < j /\ fields[i].Name = fields[j].Name

\* C21: StructOf raises on every list of fields with an empty, invalid or
\* repeated name, wherever in the list the field is, and then neither makes a
\* node nor stores one in its cache.
C21_StructOfRejectsBadNames ==
    [][(call'.op = "StructOf" /\ badNames(call'.shape[1].fields))
       => /\ call'.err # ""
          /\ nodes' = nodes
          /\ structLookupCache' = structLookupCache]_vars

\* the three-valued AND of the comparability of the nodes ch[i..]
RECURSIVE andOfChildren(_, _, _)
andOfChildren(ns, ch, i) ==
    IF i > Len(ch) THEN ttrue
    ELSE andTribool(ns[ch[i]].comparable, andOfChildren(ns, ch, i + 1))

\* C22: the node that StructOf or ArrayOf returns records the three-valued
\* AND of the comparability of all its children, and the node that SliceOf,
\* FuncOf or MapOf returns records that it cannot be compared.
C22_ComparableIsAndOfChildren ==
    [][/\ (call'.op \in {"StructOf", "ArrayOf"} /\ call'.err = "")
          => nodes'[call'.ret].comparable
                 = andOfChildren(nodes, call'.shape[1].ch, 1)
       /\ (call'.op \in {"SliceOf", "FuncOf", "MapOf"} /\ call'.err = "")
          => nodes'[call'.ret].comparable = tfalse]_vars

\* an interface node on which computeHashStr has returned
hashedInterface(ns, t) ==
    /\ ns[t].info # <<>>
    /\ ns[t].info[1].k = kInterface
    /\ iflagHashStr \in ns[t].iflag

methodSet(ns, t) == {ns[t].info[1].fields[i] : i \in 1..Len(ns[t].info[1].fields)}

\* C23: two interface nodes with the same set of methods, in whatever order
\* the methods were listed, have the same hash and the same string once
\* computeHashStr has returned on both.
C23_InterfaceHashIgnoresOrder ==
    \A t1, t2 \in Ids(nodes) :
        (/\ hashedInterface(nodes, t1)
         /\ hashedInterface(nodes, t2)
         /\ methodSet(nodes, t1) = methodSet(nodes, t2))
        => /\ hashOf(nodes, t1) = hashOf(nodes, t2)
           /\ interfaceString(nodes, t1) = interfaceString(nodes, t2)

\* the nodes that t holds by value: the parts of an array or a struct, or
\* those of the array or struct that a named node is bound to
byValue(ns, t) ==
    IF ns[t].named # <<>> /\ ns[t].info # <<>> /\ ns[t].info[1].k = kItype
    THEN parts(ns, ns[t].info[1].ch[1])
    ELSE parts(ns, t)

C25_HandleOrShapeNotBoth ==
    \A t \in Ids(nodes) :
        /\ ~(nodes[t].complete # <<>> /\ nodes[t].info # <<>>)
        /\ (nodes[t].complete = <<>> /\ nodes[t].info = <<>>) => nodes[t].named # <<>>

\* C26: no step of any operation clears a flag of a node or changes a
\* realized handle: the flags of every node only grow, and a handle that is
\* set stays as it is.
C26_FlagsAndHandleOnlyAdvance ==
    [][\A t \in Ids(nodes) :
           /\ nodes[t].iflag \subseteq nodes'[t].iflag
           /\ nodes[t].complete # <<>> => nodes'[t].complete = nodes[t].complete]_vars

\* Complete has returned on a named root that holds every flag and a handle
C26_Witness ==
    /\ call.op = "Complete"
    /\ call.err = ""
    /\ \E t \in roots(call.in) :
           /\ nodes[t].named # <<>>
           /\ nodes[t].iflag = {iflagDefined, iflagSize, iflagHashStr}
           /\ nodes[t].complete # <<>>

\* the incomplete array nodes of ns
arrays(ns) ==
    {t \in Ids(ns) : ns[t].complete = <<>> /\ ns[t].info # <<>> /\ ns[t].info[1].k = kArray}

\* count times the size of the element of the array node t, as a number
product(ns, t) == ns[t].info[1].extra * size(ns, ns[t].info[1].ch[1])

\* C27: an array node never has iflagSize together with a size that is not
\* count times the size of its element, and the ArrayOf or computeSize call
\* that would make known a size above MaxUintptr raises an error.
C27_ArraySizeNeverWraps ==
    [][/\ \A t \in arrays(nodes') :
              iflagSize \in nodes'[t].iflag => size(nodes', t) = product(nodes', t)
       /\ \A t \in arrays(nodes') :
              (/\ call'.op \in {"ArrayOf", "computeSize"}
               /\ t \notin Ids(nodes) \/ iflagSize \notin nodes[t].iflag
               /\ iflagSize \in nodes'[nodes'[t].info[1].ch[1]].iflag
               /\ product(nodes', t) > MaxUintptr
               /\ call'.op = "ArrayOf" => call'.ret = t
               /\ call'.op = "computeSize" => call'.t = t)
              => call'.err # ""]_vars

\* C28: a Define(t, u) that raises leaves t as it was before the call, with
\* its underlying link, its flags and its incomplete rtype unchanged.
C28_FailedDefineChangesNothing ==
    [][(call'.op = "Define" /\ call'.err # "")
       => /\ nodes'[call'.t].info = nodes[call'.t].info
          /\ nodes'[call'.t].iflag = nodes[call'.t].iflag
          /\ nodes'[call'.t].incomplete = nodes[call'.t].incomplete]_vars

\* the shape descriptor of the node stored under the key ckey of lookupCache
\* says what the key says
matchesKey(ns, ckey, t) ==
    /\ ns[t].info # <<>>
    /\ ns[t].info[1].k = ckey.kind
    /\ ns[t].info[1].ch = <<ckey.t1>>
    /\ ns[t].info[1].extra = ckey.extra

matchesFuncKey(ns, ckey, t) ==
    /\ ns[t].info # <<>>
    /\ ns[t].info[1].k = kFunc
    /\ ns[t].info[1].ch = ckey.args
    /\ ns[t].info[1].extra = ckey.inCount
    /\ ns[t].info[1].variadic = ckey.variadic

matchesStructKey(ns, ckey, t) ==
    /\ ns[t].info # <<>>
    /\ ns[t].info[1].k = kStruct
    /\ ns[t].info[1].fields = ckey

\* C29: constructor calls whose kind, children, count, direction or variadic
\* flag differ never return the same node, and every node held in a cache has
\* the shape descriptor of the key it is stored under.
C29_DifferentKeysDifferentNodes ==
    /\ \A s1, s2 \in DOMAIN returned : s1 # s2 => returned[s1] \cap returned[s2] = {}
    /\ \A ckey \in DOMAIN lookupCache : matchesKey(nodes, ckey, lookupCache[ckey])
    /\ \A ckey \in DOMAIN funcLookupCache :
           matchesFuncKey(nodes, ckey, funcLookupCache[ckey])
    /\ \A ckey \in DOMAIN structLookupCache :
           matchesStructKey(nodes, ckey, structLookupCache[ckey])

\* one constructor was called twice on the same children, with two counts,
\* directions or variadic flags, and a later call found its node in the cache
C29_Witness ==
    /\ \E s1, s2 \in DOMAIN returned :
           /\ s1.k = s2.k
           /\ s1.ch = s2.ch
           /\ s1.extra # s2.extra \/ s1.variadic # s2.variadic
    /\ call.err = ""
    /\ call.shape # <<>>
    /\ call.shape[1] \in DOMAIN returned
    /\ call.ret < Len(nodes)

\* the recursion of computeHashStr from t is at most fuel calls deep
RECURSIVE hashEnds(_, _, _)
hashEnds(ns, t, fuel) ==
    IF fuel = 0 THEN FALSE ELSE \A c \in enters(ns, t) : hashEnds(ns, c, fuel - 1)

\* C30: computeHashStr ends on every node of every graph that the
\* constructors and Define build: its recursion never holds a node twice, so
\* it is never deeper than the number of nodes.
C30_ComputeHashStrTerminates ==
    \A t \in Ids(nodes) : hashEnds(nodes, t, Len(nodes))

\* computeHashStr has returned on a pointer, slice, chan or func node whose
\* child is a named node defined as that node
C30_Witness ==
    /\ call.op = "computeHashStr"
    /\ call.err = ""
    /\ nodes[call.t].named = <<>>
    /\ nodes[call.t].info # <<>>
    /\ iflagHashStr \in nodes[call.t].iflag
    /\ \E c \in children(nodes, call.t) :
           /\ nodes[c].named # <<>>
           /\ nodes[c].info # <<>>
           /\ nodes[c].info[1].ch = <<call.t>>

====
